---- MODULE Spec2Model ----
(***************************************************************************)
(* did:web demo: key generation (1-generate-keys.js), the two DID document *)
(* creators (create-did-docker.js and the interactive creator) and the     *)
(* static HTTP server, run as separate processes over one working          *)
(* directory.                                                              *)
(*                                                                         *)
(* A string is a sequence of symbols.  A symbol is one typed character     *)
(* ("a", "/", " ") or one fixed literal of the source ("did:web:",         *)
(* "https://", "x509CertificateChain.pem").  A directory is the sequence   *)
(* of its path segments below __dirname; a file is [dir, name].            *)
(***************************************************************************)
EXTENDS Integers, Sequences, FiniteSets, TLC

(* ------------------------------ bounds --------------------------------- *)
MaxDomainLen == 2
MaxPathLen == 3
MaxServices == 2
MaxGenRuns == 1
MaxRegenRuns == 2

DomainChars == {"d", " "}
PathChars == {"a", "/"}

Strings(chars, n) == UNION {[1..k -> chars] : k \in 0..n}

DomainStrings == Strings(DomainChars, MaxDomainLen)
PathStrings == Strings(PathChars, MaxPathLen)
YesNoAnswers == {<<"y">>, <<"Y">>, <<"n">>}
HasPathAnswers == {<<"y">>, <<"n">>}
AddAuthAnswers == {<<"y">>, <<"n">>}
AddServiceAnswers == {<<"y">>, <<"n">>}
ServiceTypes == {<<"F", "o", "o">>, <<"f", "o", "o">>}
ServiceEndpoints == {<<"u">>}

\* process.argv[2] / process.env.DOMAIN when not supplied
Undefined == <<"undefined">>

\* a variable that holds no object yet
NoValue == [undefined |-> TRUE]

(* ------------------------- JavaScript strings -------------------------- *)
\* String.prototype.trim
RECURSIVE TrimStart(_)
TrimStart(s) ==
    IF s = <<>> THEN s
    ELSE IF Head(s) = " " THEN TrimStart(Tail(s)) ELSE s

RECURSIVE TrimEnd(_)
TrimEnd(s) ==
    IF s = <<>> THEN s
    ELSE IF s[Len(s)] = " " THEN TrimEnd(SubSeq(s, 1, Len(s) - 1)) ELSE s

Trim(s) == TrimEnd(TrimStart(s))

\* String.prototype.toLowerCase
LowerChar(c) ==
    CASE c = "Y" -> "y"
      [] c = "N" -> "n"
      [] c = "F" -> "f"
      [] OTHER -> c

ToLowerCase(s) == [i \in DOMAIN s |-> LowerChar(s[i])]

\* String.prototype.split(sep): ''.split('/') is [''], 'a/'.split('/') is ['a','']
RECURSIVE Split(_, _)
Split(s, sep) ==
    IF \A i \in DOMAIN s : s[i] # sep THEN <<s>>
    ELSE LET i == CHOOSE j \in DOMAIN s :
                      s[j] = sep /\ \A k \in 1..(j - 1) : s[k] # sep
         IN <<SubSeq(s, 1, i - 1)>> \o Split(SubSeq(s, i + 1, Len(s)), sep)

\* Array.prototype.join(sep)
RECURSIVE Join(_, _)
Join(parts, sep) ==
    IF parts = <<>> THEN <<>>
    ELSE IF Len(parts) = 1 THEN parts[1]
    ELSE parts[1] \o <<sep>> \o Join(Tail(parts), sep)

\* JavaScript truthiness of a string
Truthy(s) == s # Undefined /\ s # <<>>

\* a || b
Or(a, b) == IF Truthy(a) THEN a ELSE b

(* ----------------------------- file system ----------------------------- *)
\* path.join(__dirname, p): the directory below __dirname that p names;
\* empty segments (leading, trailing, doubled slashes) are normalised away.
PathJoin(p) == SelectSeq(Split(p, "/"), LAMBDA seg : seg # <<>>)

RootDir == <<>>
KeysDir == PathJoin(<<"keys">>)
OutputDir == PathJoin(<<"did-document">>)
WellKnownDir == PathJoin(<<".well-known">>)

File(dir, name) == [dir |-> dir, name |-> name]

DidJson == "did.json"
CertChainPem == "x509CertificateChain.pem"

\* fs.mkdirSync(dir, { recursive: true }): dir and every missing ancestor
Ancestors(dir) == {SubSeq(dir, 1, k) : k \in 0..Len(dir)}

\* variant: an existing file is appended to, not replaced
WriteFileAppending(fs, f, content) ==
    [p \in DOMAIN fs \cup {f} |->
        IF p # f THEN fs[p]
        ELSE IF f \in DOMAIN fs THEN [first |-> fs[f], then |-> content]
        ELSE content]

\* fs.writeFileSync / fs.copyFileSync destination
WriteFile(fs, f, content) ==
    [p \in DOMAIN fs \cup {f} |-> IF p = f THEN content ELSE fs[p]]

\* fs.unlinkSync
Unlink(fs, f) == [p \in DOMAIN fs \ {f} |-> fs[p]]

\* JSON.stringify(value, null, 2) and JSON.parse
JSONStringify(v) == [json |-> v]
JSONParse(c) == c.json

VARIABLES
    files,          \* existing files: [dir, name] -> content
    dirs,           \* existing directories
    gpc,            \* generate-keys: position
    gkey,           \* generate-keys: key pair generated by this run
    gcert,          \* generate-keys: certificate returned to generateKeys
    genRuns,        \* generate-keys: runs started so far
    gerror,         \* generate-keys: generateKeys() rejected in the last run
    gexit,          \* generate-keys: process exit status, -1 until it ends
    mode,           \* creator: "docker" or "interactive"
    pc,             \* creator: position
    exitCode,       \* creator: process exit status, -1 while running
    domain,
    hasPath,
    pathComponent,
    didId,
    x5uURL,
    publicKeyJWK,
    didDocument,
    addAuth,        \* answer to "Add authentication method?"
    addService,     \* answer to "Add service endpoints?"
    entered,        \* the (type, endpoint) pairs typed so far, in order
    srv,            \* server: "down" or "up"
    mounts,         \* server: top-level directories mounted at startup
    resp,           \* server: the last response sent
    build,          \* docker build: the step it is at
    buildArg,       \* docker build: --build-arg DOMAIN
    previous        \* the files as an earlier creator run left them

vars == <<files, dirs, gpc, gkey, gcert, genRuns, gerror, gexit, mode, pc,
          exitCode, domain, hasPath, pathComponent, didId, x5uURL,
          publicKeyJWK, didDocument, addAuth, addService, entered,
          srv, mounts, resp, build, buildArg, previous>>

fsVars == <<files, dirs>>
genVars == <<gpc, gkey, gcert, genRuns, gerror, gexit>>
answerVars == <<addAuth, addService, entered>>
creatorVars == <<mode, pc, exitCode, domain, hasPath, pathComponent, didId,
                 x5uURL, publicKeyJWK, didDocument, answerVars>>
srvVars == <<srv, mounts, resp>>
outerVars == <<build, buildArg, previous>>
creatorLocals == <<domain, hasPath, pathComponent, didId, x5uURL,
                   publicKeyJWK, didDocument, answerVars>>

Init ==
    /\ files = <<>>
    /\ dirs = {RootDir}
    /\ gpc = "idle"
    /\ gkey = 0
    /\ gcert = NoValue
    /\ genRuns = 0
    /\ gerror = FALSE
    /\ gexit = -1
    /\ mode = "none"
    /\ pc = "idle"
    /\ exitCode = -1
    /\ domain = Undefined
    /\ hasPath = Undefined
    /\ pathComponent = <<>>
    /\ didId = <<>>
    /\ x5uURL = Undefined
    /\ publicKeyJWK = NoValue
    /\ didDocument = NoValue
    /\ addAuth = Undefined
    /\ addService = Undefined
    /\ entered = <<>>
    /\ srv = "down"
    /\ mounts = {}
    /\ resp = NoValue
    /\ build = "none"
    /\ buildArg = Undefined
    /\ previous = NoValue

Exists(f) == f \in DOMAIN files

(* --------------------------- 1-generate-keys.js ------------------------ *)
OpensslConfig == [text |-> "openssl.cnf"]
PlaceholderCert == [cert |-> "placeholder"]
OpensslCert(signingKey) == [cert |-> "openssl", key |-> signingKey]

\* variant: the public key is marked for encryption
PublicKeyJWKForEncryption(k) ==
    [kty |-> "RSA", n |-> k, e |-> "AQAB", alg |-> "PS256", use |-> "enc"]

\* exportJWK(publicKey) plus alg and use
PublicKeyJWK(k) ==
    [kty |-> "RSA", n |-> k, e |-> "AQAB", alg |-> "PS256", use |-> "sig"]
PrivateKeyJWK(k) ==
    [kty |-> "RSA", n |-> k, e |-> "AQAB", d |-> k, alg |-> "PS256"]
PrivateKeyPEM(k) == [pkcs8 |-> k]
PublicKeyPEM(k) == [spki |-> k]

\* generateKeyPair and the exports
GenStartUpTo(runs) ==
    /\ gpc = "idle"
    /\ genRuns < runs
    /\ genRuns' = genRuns + 1
    /\ gkey' = genRuns + 1
    /\ gpc' = "cert"
    /\ gerror' = FALSE
    /\ gexit' = -1
    /\ UNCHANGED <<gcert, fsVars, creatorVars, srvVars,
                   outerVars>>

GenStart == GenStartUpTo(MaxGenRuns)

\* generateSelfSignedCertificate: openssl, when the command is installed
\* and working (opensslOK), signs with whatever keys/private-key.pem holds
\* on disk at this point; any failure in the try block returns the
\* placeholder
GenerateSelfSignedCertificate(opensslOK) ==
    /\ gpc = "cert"
    /\ LET cnf == File(KeysDir, "openssl.cnf")
           keyPath == File(KeysDir, "private-key.pem")
           certPath == File(KeysDir, "certificate.pem")
       IN IF KeysDir \notin dirs
          THEN /\ gcert' = PlaceholderCert
               /\ files' = files
          ELSE IF opensslOK /\ Exists(keyPath)
          THEN /\ gcert' = OpensslCert(files[keyPath].pkcs8)
               /\ files' = Unlink(WriteFile(WriteFile(files, cnf, OpensslConfig),
                                            certPath,
                                            OpensslCert(files[keyPath].pkcs8)),
                                  cnf)
          ELSE /\ gcert' = PlaceholderCert
               /\ files' = WriteFile(files, cnf, OpensslConfig)
    /\ gpc' = "mkdir"
    /\ UNCHANGED <<gkey, genRuns, gerror, gexit, dirs, creatorVars, srvVars,
                   outerVars>>

\* const x509Certificate = await generateSelfSignedCertificate(...)
GenCertificate ==
    \E opensslOK \in BOOLEAN : GenerateSelfSignedCertificate(opensslOK)

GenMkdir ==
    /\ gpc = "mkdir"
    /\ dirs' = dirs \cup {KeysDir}
    /\ gpc' = "privateJwk"
    /\ UNCHANGED <<gkey, gcert, genRuns, gerror, gexit, files, creatorVars,
                   srvVars,
                   outerVars>>

GenWrite(at, name, content, next) ==
    /\ gpc = at
    /\ files' = WriteFile(files, File(KeysDir, name), content)
    /\ gpc' = next
    /\ gexit' = IF next = "idle" THEN 0 ELSE gexit
    /\ UNCHANGED <<gkey, gcert, genRuns, gerror, dirs, creatorVars, srvVars,
                   outerVars>>

GenWritePrivateJwk ==
    GenWrite("privateJwk", "private-key.json",
             JSONStringify(PrivateKeyJWK(gkey)), "publicJwk")

GenWritePublicJwk ==
    GenWrite("publicJwk", "public-key.json",
             JSONStringify(PublicKeyJWK(gkey)), "privatePem")

GenWritePrivatePem ==
    GenWrite("privatePem", "private-key.pem", PrivateKeyPEM(gkey), "publicPem")

GenWritePublicPem ==
    GenWrite("publicPem", "public-key.pem", PublicKeyPEM(gkey), "cert509")

\* the last write; generateKeys resolves and the process ends with status 0
GenWriteCert ==
    GenWrite("cert509", CertChainPem, gcert, "idle")

\* mkdirSync or a writeFileSync throws (no space, no permission):
\* generateKeys() rejects, .catch(console.error) prints the error and the
\* process ends normally
GenReject ==
    /\ gpc \in {"mkdir", "privateJwk", "publicJwk", "privatePem", "publicPem",
                "cert509"}
    /\ gpc' = "idle"
    /\ gerror' = TRUE
    /\ gexit' = 0
    /\ UNCHANGED <<gkey, gcert, genRuns, fsVars, creatorVars, srvVars,
                   outerVars>>

GenerateKeys ==
    \/ GenStart
    \/ GenCertificate
    \/ GenMkdir
    \/ GenWritePrivateJwk
    \/ GenWritePublicJwk
    \/ GenWritePrivatePem
    \/ GenWritePublicPem
    \/ GenWriteCert

(* ------------------- create-did-docker.js (Docker mode) ---------------- *)
FragmentId == "JWK2020-RSA"

\* variant: the check without the trim
DomainMissingUntrimmed(d) == ~Truthy(d)

\* !domain || domain.trim() === ''
DomainMissing(d) == ~Truthy(d) \/ Trim(d) = <<>>

\* variant: the process ends with status 0
FailExitZero ==
    /\ pc' = "done"
    /\ exitCode' = 0

\* process.exit(1), or an exception reaching the top-level handler
Fail ==
    /\ pc' = "done"
    /\ exitCode' = 1

DockerDidId(d) == <<"did:web:">> \o Trim(d)

\* variant: the certificate is announced at the server root
DockerX5uURLAtRoot(d) == <<"https://">> \o Trim(d) \o <<"/", CertChainPem>>

DockerX5uURL(d) ==
    <<"https://">> \o Trim(d) \o <<"/", ".well-known", "/", CertChainPem>>

\* variant: the controller carries the key fragment
DockerDidDocumentFragmentController(did, jwk) ==
    [context |-> <<"https://www.w3.org/ns/did/v1">>,
     id |-> did,
     verificationMethod |->
        <<[context |-> "https://w3c-ccg.github.io/lds-jws2020/contexts/v1/",
           id |-> did \o <<"#", FragmentId>>,
           type |-> "JsonWebKey2020",
           controller |-> did \o <<"#", FragmentId>>,
           publicKeyJwk |-> jwk]>>,
     assertionMethod |-> <<did \o <<"#", FragmentId>>>>]

DockerDidDocument(did, jwk) ==
    [context |-> <<"https://www.w3.org/ns/did/v1">>,
     id |-> did,
     verificationMethod |->
        <<[context |-> "https://w3c-ccg.github.io/lds-jws2020/contexts/v1/",
           id |-> did \o <<"#", FragmentId>>,
           type |-> "JsonWebKey2020",
           controller |-> did,
           publicKeyJwk |-> jwk]>>,
     assertionMethod |-> <<did \o <<"#", FragmentId>>>>]

\* const domain = process.argv[2] || process.env.DOMAIN, and the check on it
DockerStartWith(argv2, env) ==
    /\ pc = "idle"
    /\ domain' = Or(argv2, env)
    /\ mode' = "docker"
    /\ IF DomainMissing(Or(argv2, env))
       THEN Fail
       ELSE pc' = "checkKey" /\ exitCode' = exitCode
    /\ UNCHANGED <<hasPath, pathComponent, didId, x5uURL, publicKeyJWK,
                   didDocument, answerVars, fsVars, genVars, srvVars,
                   outerVars>>

\* node create-did-docker.js [domain], with or without DOMAIN in the
\* environment
DockerStart ==
    \E argv2 \in DomainStrings \cup {Undefined},
       env \in DomainStrings \cup {Undefined} : DockerStartWith(argv2, env)

DockerCheckKey ==
    /\ mode = "docker" /\ pc = "checkKey"
    /\ IF ~Exists(File(KeysDir, "public-key.json"))
       THEN Fail
       ELSE pc' = "readKey" /\ exitCode' = exitCode
    /\ UNCHANGED <<mode, creatorLocals, fsVars, genVars, srvVars,
                   outerVars>>

\* read the key, then build the identifier, x5u and the document
DockerReadKey ==
    /\ mode = "docker" /\ pc = "readKey"
    /\ LET jwk == JSONParse(files[File(KeysDir, "public-key.json")])
           did == DockerDidId(domain)
           url == DockerX5uURL(domain)
           annotated == [x5u |-> url] @@ jwk
       IN /\ didId' = did
          /\ x5uURL' = url
          /\ publicKeyJWK' = annotated
          /\ didDocument' = DockerDidDocument(did, annotated)
    /\ pc' = "mkOutputDir"
    /\ UNCHANGED <<mode, exitCode, domain, hasPath, pathComponent, answerVars,
                   fsVars, genVars, srvVars,
                   outerVars>>

DockerMkOutputDir ==
    /\ mode = "docker" /\ pc = "mkOutputDir"
    /\ dirs' = dirs \cup {OutputDir}
    /\ pc' = "writeDidDoc"
    /\ UNCHANGED <<mode, exitCode, creatorLocals, files, genVars, srvVars,
                   outerVars>>

DockerWriteDidDoc ==
    /\ mode = "docker" /\ pc = "writeDidDoc"
    /\ files' = WriteFile(files, File(OutputDir, DidJson),
                          JSONStringify(didDocument))
    /\ pc' = "mkWellKnown"
    /\ UNCHANGED <<mode, exitCode, creatorLocals, dirs, genVars, srvVars,
                   outerVars>>

DockerMkWellKnown ==
    /\ mode = "docker" /\ pc = "mkWellKnown"
    /\ dirs' = dirs \cup {WellKnownDir}
    /\ pc' = "writeHosted"
    /\ UNCHANGED <<mode, exitCode, creatorLocals, files, genVars, srvVars,
                   outerVars>>

DockerWriteHosted ==
    /\ mode = "docker" /\ pc = "writeHosted"
    /\ files' = WriteFile(files, File(WellKnownDir, DidJson),
                          JSONStringify(didDocument))
    /\ pc' = "copyCert"
    /\ UNCHANGED <<mode, exitCode, creatorLocals, dirs, genVars, srvVars,
                   outerVars>>

\* fs.copyFileSync throws when keys/x509CertificateChain.pem does not exist
DockerCopyCert ==
    /\ mode = "docker" /\ pc = "copyCert"
    /\ LET certSource == File(KeysDir, CertChainPem)
           certDest == File(WellKnownDir, CertChainPem)
       IN IF Exists(certSource)
          THEN /\ files' = WriteFile(files, certDest, files[certSource])
               /\ pc' = "done"
               /\ exitCode' = 0
          ELSE /\ files' = files
               /\ Fail
    /\ UNCHANGED <<mode, creatorLocals, dirs, genVars, srvVars,
                   outerVars>>

CreateDockerDID ==
    \/ DockerStart
    \/ DockerCheckKey
    \/ DockerReadKey
    \/ DockerMkOutputDir
    \/ DockerWriteDidDoc
    \/ DockerMkWellKnown
    \/ DockerWriteHosted
    \/ DockerCopyCert

(* ------------------------- interactive creator ------------------------- *)
\* the answer to a y/n question counts as yes
Yes(answer) == ToLowerCase(answer) = <<"y">>

\* variant: the slashes are left in the identifier
DidPathUnconverted(p) == p

\* variant: empty pieces are dropped before joining
DidPathFiltered(p) ==
    Join(SelectSeq(Split(p, "/"), LAMBDA piece : piece # <<>>), ":")

\* pathComponent.split('/').join(':')
DidPath(p) == Join(Split(p, "/"), ":")

DidIdWithPath(d, p) == <<"did:web:">> \o Trim(d) \o <<":">> \o DidPath(p)

\* variant: the domain is used as typed
DidIdNoPathUntrimmed(d) == <<"did:web:">> \o d

DidIdNoPath(d) == <<"did:web:">> \o Trim(d)

X5uURL(d, p) ==
    IF Truthy(p)
    THEN <<"https://">> \o Trim(d) \o <<"/">> \o p \o <<"/", CertChainPem>>
    ELSE <<"https://">> \o Trim(d) \o <<"/", ".well-known", "/", CertChainPem>>

\* variant: assertionMethod refers to the DID, not to the key
DidDocumentBareAssertion(did, jwk) ==
    [context |-> <<"https://www.w3.org/ns/did/v1">>,
     id |-> did,
     verificationMethod |->
        <<[context |-> "https://w3c-ccg.github.io/lds-jws2020/contexts/v1/",
           id |-> did \o <<"#", FragmentId>>,
           type |-> "JsonWebKey2020",
           controller |-> did,
           publicKeyJwk |-> jwk]>>,
     assertionMethod |-> <<did>>]

\* variant: the document carries a field read from the environment at the
\* time of the run
DidDocumentStamped(did, jwk) ==
    [context |-> <<"https://www.w3.org/ns/did/v1">>,
     id |-> did,
     created |-> gpc,
     verificationMethod |->
        <<[context |-> "https://w3c-ccg.github.io/lds-jws2020/contexts/v1/",
           id |-> did \o <<"#", FragmentId>>,
           type |-> "JsonWebKey2020",
           controller |-> did,
           publicKeyJwk |-> jwk]>>,
     assertionMethod |-> <<did \o <<"#", FragmentId>>>>]

DidDocument(did, jwk) ==
    [context |-> <<"https://www.w3.org/ns/did/v1">>,
     id |-> did,
     verificationMethod |->
        <<[context |-> "https://w3c-ccg.github.io/lds-jws2020/contexts/v1/",
           id |-> did \o <<"#", FragmentId>>,
           type |-> "JsonWebKey2020",
           controller |-> did,
           publicKeyJwk |-> jwk]>>,
     assertionMethod |-> <<did \o <<"#", FragmentId>>>>]

\* variant: the fragment keeps the case of the type as typed
ServiceEntryCaseKept(did, serviceType, serviceEndpoint) ==
    [id |-> did \o <<"#">> \o serviceType,
     type |-> serviceType,
     serviceEndpoint |-> serviceEndpoint]

ServiceEntry(did, serviceType, serviceEndpoint) ==
    [id |-> did \o <<"#">> \o ToLowerCase(serviceType),
     type |-> serviceType,
     serviceEndpoint |-> serviceEndpoint]

\* lines 190-220: x5u, its annotation on the key, and the document
BuildDocument(did, p) ==
    LET url == X5uURL(domain, p)
        annotated == [x5u |-> url] @@ publicKeyJWK
    IN /\ didId' = did
       /\ x5uURL' = url
       /\ publicKeyJWK' = annotated
       /\ didDocument' = DidDocument(did, annotated)

InteractiveStart ==
    /\ pc = "idle"
    /\ mode' = "interactive"
    /\ pc' = "checkKey"
    /\ UNCHANGED <<exitCode, creatorLocals, fsVars, genVars, srvVars,
                   outerVars>>

InteractiveCheckKey ==
    /\ mode = "interactive" /\ pc = "checkKey"
    /\ IF ~Exists(File(KeysDir, "public-key.json"))
       THEN Fail
       ELSE pc' = "readKey" /\ exitCode' = exitCode
    /\ UNCHANGED <<mode, creatorLocals, fsVars, genVars, srvVars,
                   outerVars>>

InteractiveReadKey ==
    /\ mode = "interactive" /\ pc = "readKey"
    /\ publicKeyJWK' = JSONParse(files[File(KeysDir, "public-key.json")])
    /\ pc' = "askDomain"
    /\ UNCHANGED <<mode, exitCode, domain, hasPath, pathComponent, didId,
                   x5uURL, didDocument, answerVars, fsVars, genVars, srvVars,
                   outerVars>>

AskDomain ==
    /\ mode = "interactive" /\ pc = "askDomain"
    /\ \E answer \in DomainStrings :
          /\ domain' = answer
          /\ IF DomainMissing(answer)
             THEN Fail
             ELSE pc' = "askHasPath" /\ exitCode' = exitCode
    /\ UNCHANGED <<mode, hasPath, pathComponent, didId, x5uURL, publicKeyJWK,
                   didDocument, answerVars, fsVars, genVars, srvVars,
                   outerVars>>

AskHasPath ==
    /\ mode = "interactive" /\ pc = "askHasPath"
    /\ \E answer \in HasPathAnswers :
          /\ hasPath' = answer
          /\ IF Yes(answer)
             THEN /\ pc' = "askPath"
                  /\ UNCHANGED <<didId, x5uURL, publicKeyJWK, didDocument>>
             ELSE /\ pc' = "askAuth"
                  /\ BuildDocument(DidIdNoPath(domain), pathComponent)
    /\ UNCHANGED <<mode, exitCode, domain, pathComponent, answerVars, fsVars,
                   genVars, srvVars,
                   outerVars>>

AskPathFrom(paths) ==
    /\ mode = "interactive" /\ pc = "askPath"
    /\ \E answer \in paths :
          /\ pathComponent' = answer
          /\ BuildDocument(DidIdWithPath(domain, answer), answer)
    /\ pc' = "askAuth"
    /\ UNCHANGED <<mode, exitCode, domain, hasPath, answerVars, fsVars,
                   genVars, srvVars,
                   outerVars>>

AskPath == AskPathFrom(PathStrings)

\* variant: the authentication array names the DID, not the key
WithAuthenticationBare(doc, did) == [authentication |-> <<did>>] @@ doc

\* didDocument.authentication = [`${didId}#${fragmentId}`]
WithAuthentication(doc, did) ==
    [authentication |-> <<did \o <<"#", FragmentId>>>>] @@ doc

AskAuth ==
    /\ mode = "interactive" /\ pc = "askAuth"
    /\ \E answer \in AddAuthAnswers :
          /\ addAuth' = answer
          /\ didDocument' =
                 IF Yes(answer)
                 THEN WithAuthentication(didDocument, didId)
                 ELSE didDocument
    /\ pc' = "askService"
    /\ UNCHANGED <<mode, exitCode, domain, hasPath, pathComponent, didId,
                   x5uURL, publicKeyJWK, addService, entered, fsVars, genVars,
                   srvVars,
                   outerVars>>

AskService ==
    /\ mode = "interactive" /\ pc = "askService"
    /\ \E answer \in AddServiceAnswers :
          /\ addService' = answer
          /\ IF Yes(answer)
             THEN /\ didDocument' = [service |-> <<>>] @@ didDocument
                  /\ pc' = "serviceEntry"
             ELSE /\ didDocument' = didDocument
                  /\ pc' = "mkOutputDir"
    /\ UNCHANGED <<mode, exitCode, domain, hasPath, pathComponent, didId,
                   x5uURL, publicKeyJWK, addAuth, entered, fsVars, genVars,
                   srvVars,
                   outerVars>>

AskServiceEntry ==
    /\ mode = "interactive" /\ pc = "serviceEntry"
    /\ \E serviceType \in ServiceTypes, serviceEndpoint \in ServiceEndpoints :
          /\ entered' = Append(entered, [type |-> serviceType,
                                         endpoint |-> serviceEndpoint])
          /\ didDocument' =
                 [didDocument EXCEPT !.service =
                     Append(@, ServiceEntry(didId, serviceType,
                                            serviceEndpoint))]
    /\ pc' = "askMore"
    /\ UNCHANGED <<mode, exitCode, domain, hasPath, pathComponent, didId,
                   x5uURL, publicKeyJWK, addAuth, addService, fsVars, genVars,
                   srvVars,
                   outerVars>>

\* the user stops after MaxServices entries
AskMore ==
    /\ mode = "interactive" /\ pc = "askMore"
    /\ \E more \in YesNoAnswers :
          /\ Yes(more) => Len(didDocument.service) < MaxServices
          /\ pc' = IF Yes(more) THEN "serviceEntry" ELSE "mkOutputDir"
    /\ UNCHANGED <<mode, exitCode, creatorLocals, fsVars, genVars, srvVars,
                   outerVars>>

InteractiveMkOutputDir ==
    /\ mode = "interactive" /\ pc = "mkOutputDir"
    /\ dirs' = dirs \cup {OutputDir}
    /\ pc' = "writeDidDoc"
    /\ UNCHANGED <<mode, exitCode, creatorLocals, files, genVars, srvVars,
                   outerVars>>

\* variant: the archive copy holds the document as first assembled, without
\* what the authentication and service prompts added
InteractiveWriteDidDocAsBuilt ==
    /\ mode = "interactive" /\ pc = "writeDidDoc"
    /\ files' = WriteFile(files, File(OutputDir, DidJson),
                          JSONStringify(DidDocument(didId, publicKeyJWK)))
    /\ pc' = "mkWellKnown"
    /\ UNCHANGED <<mode, exitCode, creatorLocals, dirs, genVars, srvVars,
                   outerVars>>

InteractiveWriteDidDoc ==
    /\ mode = "interactive" /\ pc = "writeDidDoc"
    /\ files' = WriteFile(files, File(OutputDir, DidJson),
                          JSONStringify(didDocument))
    /\ pc' = "mkWellKnown"
    /\ UNCHANGED <<mode, exitCode, creatorLocals, dirs, genVars, srvVars,
                   outerVars>>

\* .well-known is created whether or not a path was entered
InteractiveMkWellKnown ==
    /\ mode = "interactive" /\ pc = "mkWellKnown"
    /\ dirs' = dirs \cup {WellKnownDir}
    /\ pc' = IF Truthy(pathComponent) THEN "mkPathDir" ELSE "writeWellKnown"
    /\ UNCHANGED <<mode, exitCode, creatorLocals, files, genVars, srvVars,
                   outerVars>>

\* const pathDir = path.join(__dirname, pathComponent)
PathDir == PathJoin(pathComponent)

MkPathDir ==
    /\ mode = "interactive" /\ pc = "mkPathDir"
    /\ dirs' = dirs \cup Ancestors(PathDir)
    /\ pc' = "writePathDoc"
    /\ UNCHANGED <<mode, exitCode, creatorLocals, files, genVars, srvVars,
                   outerVars>>

WritePathDoc ==
    /\ mode = "interactive" /\ pc = "writePathDoc"
    /\ files' = WriteFile(files, File(PathDir, DidJson),
                          JSONStringify(didDocument))
    /\ pc' = "copyPathCert"
    /\ UNCHANGED <<mode, exitCode, creatorLocals, dirs, genVars, srvVars,
                   outerVars>>

\* fs.copyFileSync rejects the promise when the certificate does not exist
CopyCert(at, destDir) ==
    /\ mode = "interactive" /\ pc = at
    /\ LET certSource == File(KeysDir, CertChainPem)
           certDest == File(destDir, CertChainPem)
       IN IF Exists(certSource)
          THEN /\ files' = WriteFile(files, certDest, files[certSource])
               /\ pc' = "done"
               /\ exitCode' = 0
          ELSE /\ files' = files
               /\ Fail
    /\ UNCHANGED <<mode, creatorLocals, dirs, genVars, srvVars,
                   outerVars>>

CopyPathCert == CopyCert("copyPathCert", PathDir)

WriteWellKnownDoc ==
    /\ mode = "interactive" /\ pc = "writeWellKnown"
    /\ files' = WriteFile(files, File(WellKnownDir, DidJson),
                          JSONStringify(didDocument))
    /\ pc' = "copyWellKnownCert"
    /\ UNCHANGED <<mode, exitCode, creatorLocals, dirs, genVars, srvVars,
                   outerVars>>

CopyWellKnownCert == CopyCert("copyWellKnownCert", WellKnownDir)

CreateDID ==
    \/ InteractiveStart
    \/ InteractiveCheckKey
    \/ InteractiveReadKey
    \/ AskDomain
    \/ AskHasPath
    \/ AskPath
    \/ AskAuth
    \/ AskService
    \/ AskServiceEntry
    \/ AskMore
    \/ InteractiveMkOutputDir
    \/ InteractiveWriteDidDoc
    \/ InteractiveMkWellKnown
    \/ MkPathDir
    \/ WritePathDoc
    \/ CopyPathCert
    \/ WriteWellKnownDoc
    \/ CopyWellKnownCert

(* ------------------------------ HTTP server ---------------------------- *)
\* variant: the keys directory is not on the list
ExcludedDirsWithoutKeys ==
    {<<"node_modules">>, <<"did-document">>, <<".well-known">>, <<".git">>}

ExcludedDirs ==
    {<<"node_modules">>, <<"keys">>, <<"did-document">>, <<".well-known">>,
     <<".git">>}

\* entry.name.startsWith('.')
StartsWithDot(name) ==
    name # <<>> /\ Head(name) \in {".", ".well-known", ".git"}

\* the top-level directories that get an express.static mount at startup
CustomMounts ==
    {d[1] : d \in {e \in dirs : /\ Len(e) = 1
                                /\ e[1] \notin ExcludedDirs
                                /\ ~StartsWithDot(e[1])
                                /\ Exists(File(e, DidJson))}}

\* variant: every directory is looked up at request time
ServeAnyDirectory(req) ==
    IF req.dir # <<>> /\ Exists(req)
    THEN [req |-> req, status |-> 200, body |-> files[req]]
    ELSE [req |-> req, status |-> 404, body |-> [error |-> "Not Found"]]

\* GET /<dir>/<name> through the static mounts, else the 404 handler
Serve(req) ==
    IF /\ req.dir # <<>>
       /\ req.dir[1] = <<".well-known">> \/ req.dir[1] \in mounts
       /\ Exists(req)
    THEN [req |-> req, status |-> 200, body |-> files[req]]
    ELSE [req |-> req, status |-> 404, body |-> [error |-> "Not Found"]]

Requests == {File(d, n) : d \in dirs, n \in {DidJson, CertChainPem}}

\* node 3-server.js, for the first time or again after the process ended
ServerStart ==
    /\ srv # "up"
    /\ srv' = "up"
    /\ mounts' = CustomMounts
    /\ UNCHANGED <<resp, fsVars, genVars, creatorVars, outerVars>>

Get ==
    /\ srv = "up"
    /\ \E req \in Requests : resp' = Serve(req)
    /\ UNCHANGED <<srv, mounts, fsVars, genVars, creatorVars, outerVars>>

ApiDidInfo == File(<<<<"api">>>>, "did-info")

\* variant: the handler reads the archive copy in did-document
DidInfoFromArchive ==
    LET archivePath == File(OutputDir, DidJson)
    IN IF ~Exists(archivePath)
       THEN [req |-> ApiDidInfo, status |-> 404,
             body |-> [error |-> "DID document not found"]]
       ELSE [req |-> ApiDidInfo, status |-> 200,
             body |-> [did |-> JSONParse(files[archivePath]).id,
                       document |-> JSONParse(files[archivePath])]]

\* app.get('/api/did-info'): reads .well-known/did.json on every request
DidInfo ==
    LET wellKnownPath == File(WellKnownDir, DidJson)
    IN IF ~Exists(wellKnownPath)
       THEN [req |-> ApiDidInfo, status |-> 404,
             body |-> [error |-> "DID document not found"]]
       ELSE [req |-> ApiDidInfo, status |-> 200,
             body |-> [did |-> JSONParse(files[wellKnownPath]).id,
                       document |-> JSONParse(files[wellKnownPath])]]

GetDidInfo ==
    /\ srv = "up"
    /\ resp' = DidInfo
    /\ UNCHANGED <<srv, mounts, fsVars, genVars, creatorVars, outerVars>>

\* process.on('SIGTERM'): the handler calls server.close(), but no binding
\* named server exists (the result of app.listen is not kept), so the call
\* raises a ReferenceError and the process dies with the uncaught exception
Sigterm ==
    /\ srv = "up"
    /\ srv' = "crashed"
    /\ UNCHANGED <<mounts, resp, fsVars, genVars, creatorVars, outerVars>>

\* GET of any file that exists below __dirname
GetFile ==
    /\ srv = "up"
    /\ \E req \in DOMAIN files : resp' = Serve(req)
    /\ UNCHANGED <<srv, mounts, fsVars, genVars, creatorVars, outerVars>>

Server ==
    \/ ServerStart
    \/ Get
    \/ GetDidInfo

(* ------------------------------ Dockerfile ----------------------------- *)
\* ENV DOMAIN=${DOMAIN}: an argument that was not given expands to nothing
EnvDomain(arg) == IF arg = Undefined THEN <<>> ELSE arg

\* variant: only an argument that was not given counts as empty
DomainArgNotGiven(arg) == arg = Undefined

\* [ -z "$DOMAIN" ]
DomainArgEmpty(arg) == EnvDomain(arg) = <<>>

\* the unquoted $DOMAIN on the command line: the shell splits it at blanks,
\* argv[2] is the first word, or absent when there is none
FirstWord(s) ==
    LET words == SelectSeq(Split(s, " "), LAMBDA w : w # <<>>)
    IN IF words = <<>> THEN Undefined ELSE words[1]

\* docker build [--build-arg DOMAIN=...] on a fresh checkout
DockerBuild ==
    /\ build = "none"
    /\ genRuns = 0 /\ gpc = "idle" /\ pc = "idle"
    /\ \E arg \in DomainStrings \cup {Undefined} : buildArg' = arg
    /\ build' = "validate"
    /\ UNCHANGED <<previous, fsVars, genVars, creatorVars, srvVars>>

\* RUN if [ -z "$DOMAIN" ]; then ... exit 1; fi
BuildValidate ==
    /\ build = "validate"
    /\ build' = IF DomainArgEmpty(buildArg) THEN "failed" ELSE "keys"
    /\ UNCHANGED <<buildArg, previous, fsVars, genVars, creatorVars,
                   srvVars>>

\* RUN node 1-generate-keys.js, one process, whose writes may fail
BuildGenerateKeys ==
    /\ build = "keys"
    /\ ~(gpc = "idle" /\ gexit # -1)
    /\ GenerateKeys \/ GenReject

\* the step ends with the exit status of the process
BuildKeysEnd ==
    /\ build = "keys"
    /\ gpc = "idle" /\ gexit # -1
    /\ build' = IF gexit = 0 THEN "did" ELSE "failed"
    /\ UNCHANGED <<buildArg, previous, fsVars, genVars, creatorVars,
                   srvVars>>

\* RUN node create-did-docker.js $DOMAIN
BuildCreateDID ==
    /\ build = "did"
    /\ \/ DockerStartWith(FirstWord(EnvDomain(buildArg)), EnvDomain(buildArg))
       \/ DockerCheckKey
       \/ DockerReadKey
       \/ DockerMkOutputDir
       \/ DockerWriteDidDoc
       \/ DockerMkWellKnown
       \/ DockerWriteHosted
       \/ DockerCopyCert

BuildCreateEnd ==
    /\ build = "did"
    /\ pc = "done"
    /\ build' = IF exitCode = 0 THEN "built" ELSE "failed"
    /\ UNCHANGED <<buildArg, previous, fsVars, genVars, creatorVars,
                   srvVars>>

BuildNext ==
    \/ DockerBuild
    \/ BuildValidate
    \/ BuildGenerateKeys
    \/ BuildKeysEnd
    \/ BuildCreateDID
    \/ BuildCreateEnd

BuildSpec == Init /\ [][BuildNext]_vars

\* key generation and the creators, no server process
Next ==
    \/ GenerateKeys
    \/ CreateDockerDID
    \/ CreateDID

Spec == Init /\ [][Next]_vars

\* the same, with the server running beside them
ServedNext ==
    \/ Next
    \/ Server

ServedSpec == Init /\ [][ServedNext]_vars

\* key generation whose directory creation and writes may fail
FailingWritesNext ==
    \/ Next
    \/ GenReject

FailingWritesSpec == Init /\ [][FailingWritesNext]_vars

\* JSON objects that parse but are not a usable RSA public key: '{}' and an
\* object without kty, n and e
MalformedKeys == {<<>>, [alg |-> "PS256", use |-> "sig"]}

\* a checkout whose keys/public-key.json holds such an object, beside a
\* certificate chain; no process has started
ReplacedKeyInit ==
    /\ \E key \in MalformedKeys :
          files = WriteFile(WriteFile(<<>>, File(KeysDir, "public-key.json"),
                                      JSONStringify(key)),
                            File(KeysDir, CertChainPem), PlaceholderCert)
    /\ dirs = {RootDir, KeysDir}
    /\ gpc = "idle"
    /\ gkey = 0
    /\ gcert = NoValue
    /\ genRuns = 0
    /\ gerror = FALSE
    /\ gexit = -1
    /\ mode = "none"
    /\ pc = "idle"
    /\ exitCode = -1
    /\ domain = Undefined
    /\ hasPath = Undefined
    /\ pathComponent = <<>>
    /\ didId = <<>>
    /\ x5uURL = Undefined
    /\ publicKeyJWK = NoValue
    /\ didDocument = NoValue
    /\ addAuth = Undefined
    /\ addService = Undefined
    /\ entered = <<>>
    /\ srv = "down"
    /\ mounts = {}
    /\ resp = NoValue
    /\ build = "none"
    /\ buildArg = Undefined
    /\ previous = NoValue

\* the creators run on that checkout
CreatorNext ==
    \/ CreateDockerDID
    \/ CreateDID

ReplacedKeySpec == ReplacedKeyInit /\ [][CreatorNext]_vars

\* no creator, server or docker build has started
NothingStarted ==
    /\ mode = "none"
    /\ pc = "idle"
    /\ exitCode = -1
    /\ domain = Undefined
    /\ hasPath = Undefined
    /\ pathComponent = <<>>
    /\ didId = <<>>
    /\ x5uURL = Undefined
    /\ publicKeyJWK = NoValue
    /\ didDocument = NoValue
    /\ addAuth = Undefined
    /\ addService = Undefined
    /\ entered = <<>>
    /\ srv = "down"
    /\ mounts = {}
    /\ resp = NoValue
    /\ build = "none"
    /\ buildArg = Undefined
    /\ previous = NoValue

\* the checkout as the first generate-keys run leaves it
GeneratedInit ==
    /\ files =
          [f \in {File(KeysDir, name) :
                     name \in {"private-key.json", "public-key.json",
                               "private-key.pem", "public-key.pem",
                               CertChainPem}} |->
              CASE f.name = "private-key.json" -> JSONStringify(PrivateKeyJWK(1))
                [] f.name = "public-key.json" -> JSONStringify(PublicKeyJWK(1))
                [] f.name = "private-key.pem" -> PrivateKeyPEM(1)
                [] f.name = "public-key.pem" -> PublicKeyPEM(1)
                [] OTHER -> PlaceholderCert]
    /\ dirs = {RootDir, KeysDir}
    /\ gpc = "idle"
    /\ gkey = 1
    /\ gcert = PlaceholderCert
    /\ genRuns = 1
    /\ gerror = FALSE
    /\ gexit = 0
    /\ NothingStarted

\* the creators beside a server that is asked for /api/did-info, on a
\* checkout with generated keys
InfoNext ==
    \/ CreatorNext
    \/ ServerStart
    \/ GetDidInfo

InfoSpec == GeneratedInit /\ [][InfoNext]_vars

\* the creators beside a server that is started, sent SIGTERM and started
\* again, on a checkout with generated keys
LifecycleNext ==
    \/ CreatorNext
    \/ ServerStart
    \/ Sigterm

LifecycleSpec == GeneratedInit /\ [][LifecycleNext]_vars

\* generate-keys run again over the keys of an earlier run, and the Docker
\* creator
RegenerateNext ==
    \/ GenStartUpTo(MaxRegenRuns)
    \/ GenerateKeys
    \/ CreateDockerDID

RegenerateSpec == Init /\ [][RegenerateNext]_vars

\* path answers that name the program's own directories
ReservedPaths ==
    {<<"keys">>, <<"keys", "/", "a">>, <<"did-document">>,
     <<".well-known">>, <<"a">>}

\* the interactive creator given such a path, beside a server asked for
\* any existing file, on a checkout with generated keys
ReservedPathNext ==
    \/ InteractiveStart
    \/ InteractiveCheckKey
    \/ InteractiveReadKey
    \/ AskDomain
    \/ AskHasPath
    \/ AskPathFrom(ReservedPaths)
    \/ AskAuth
    \/ AskService
    \/ AskServiceEntry
    \/ AskMore
    \/ InteractiveMkOutputDir
    \/ InteractiveWriteDidDoc
    \/ InteractiveMkWellKnown
    \/ MkPathDir
    \/ WritePathDoc
    \/ CopyPathCert
    \/ WriteWellKnownDoc
    \/ CopyWellKnownCert
    \/ ServerStart
    \/ GetFile

ReservedPathSpec == GeneratedInit /\ [][ReservedPathNext]_vars

\* node create-did-docker.js run once more with the same domain, after a
\* run that succeeded: a new process, nothing kept but the files
DockerAgain ==
    /\ mode = "docker"
    /\ pc = "done" /\ exitCode = 0
    /\ previous = NoValue
    /\ previous' = [files |-> files, dirs |-> dirs]
    /\ IF DomainMissing(domain)
       THEN Fail
       ELSE pc' = "checkKey" /\ exitCode' = -1
    /\ didId' = <<>>
    /\ x5uURL' = Undefined
    /\ publicKeyJWK' = NoValue
    /\ didDocument' = NoValue
    /\ UNCHANGED <<mode, domain, hasPath, pathComponent, answerVars, build,
                   buildArg, fsVars, genVars, srvVars>>

\* the Docker creator run and run again over generated keys, beside the
\* server's /api/did-info
RerunNext ==
    \/ CreateDockerDID
    \/ DockerAgain
    \/ ServerStart
    \/ GetDidInfo

RerunSpec == GeneratedInit /\ [][RerunNext]_vars

(* =============================== claims ================================ *)
Succeeded == pc = "done" /\ exitCode = 0
Failed == pc = "done" /\ exitCode = 1

\* files and directories outside keys/
PublishedFiles == {f \in DOMAIN files : f.dir # KeysDir}
PublishedDirs == dirs \ {RootDir, KeysDir}

\* directories that hold a hosted did.json (the archive copy is not hosted)
HostedDirs == {d \in dirs : d # OutputDir /\ Exists(File(d, DidJson))}

\* directories into which a certificate chain has been copied
CertDirs == {d \in dirs : d # KeysDir /\ Exists(File(d, CertChainPem))}

\* did:web method: the directory a DID resolves to.  Nothing after the
\* domain: .well-known; otherwise the segments after the domain, one
\* directory level per colon-separated segment.
ResolvedDir(did, d) ==
    LET rest == SubSeq(did, 2 + Len(Trim(d)), Len(did))
    IN IF rest = <<>> THEN WellKnownDir
       ELSE PathJoin(Join(Split(Tail(rest), ":"), "/"))

\* a domain that was not supplied, is empty or is only whitespace
Blank(d) == d = Undefined \/ \A i \in DOMAIN d : d[i] = " "

\* a directory as a path relative to the served root
RelativePath(dir) == Join(dir, "/")

\* paths made of non-empty segments only, written segment by segment
Segments == Strings(PathChars \ {"/"}, MaxPathLen) \ {<<>>}
SegmentLists ==
    UNION {[1..k -> Segments] : k \in 1..((MaxPathLen + 1) \div 2)}

StoredKeys == {PublicKeyJWK(k) : k \in 1..genRuns}

WrittenDocuments ==
    {JSONParse(files[f]) : f \in {g \in DOMAIN files : g.name = DidJson}}

\* C1: for every path answer the interactive creator accepts, the directory
\* that receives the hosted did.json is the directory the produced id
\* resolves to under the did:web mapping.
C1_PublicationMatchesId ==
    mode = "interactive" =>
        \A d \in HostedDirs : d = ResolvedDir(didId, domain)

\* C2: with a non-blank domain and no path, either creator produces
\* did:web:<trimmed domain> and puts did.json and the certificate chain
\* into .well-known.
C2_NoPathWellKnown ==
    (Succeeded /\ (mode = "docker" \/ ~Yes(hasPath))) =>
        /\ didId = <<"did:web:">> \o Trim(domain)
        /\ HostedDirs = {WellKnownDir}
        /\ JSONParse(files[File(WellKnownDir, DidJson)]).id = didId
        /\ CertDirs = {WellKnownDir}

C2_Witness ==
    /\ Succeeded
    /\ mode = "interactive"
    /\ ~Yes(hasPath)
    /\ domain = <<" ", "d">>
    /\ Exists(File(WellKnownDir, DidJson))

\* C3: for a path s1/.../sn of non-empty segments the interactive creator
\* produces did:web:<trimmed domain>:s1:...:sn and writes the hosted
\* did.json into s1/.../sn, not into .well-known.
C3_PathDirectory ==
    (/\ mode = "interactive"
     /\ pc \in {"copyPathCert", "done"}
     /\ Yes(hasPath)) =>
        \A segs \in SegmentLists :
            pathComponent = Join(segs, "/") =>
                /\ didId = <<"did:web:">> \o Trim(domain) \o <<":">>
                             \o Join(segs, ":")
                /\ HostedDirs = {segs}
                /\ JSONParse(files[File(segs, DidJson)]).id = didId

C3_Witness ==
    /\ Succeeded
    /\ mode = "interactive"
    /\ pathComponent = <<"a", "/", "a">>
    /\ Exists(File(<<<<"a">>, <<"a">>>>, DidJson))

\* C4: in a successful run the embedded x5u is
\* https://<trimmed domain>/<R>/x509CertificateChain.pem, R being the
\* directory, relative to the served root, that received the certificate
\* chain and the hosted did.json.
C4_X5uMatchesCertDir ==
    Succeeded =>
        \A r \in CertDirs :
            x5uURL = <<"https://">> \o Trim(domain) \o <<"/">>
                       \o RelativePath(r) \o <<"/", CertChainPem>>

\* C5: a missing, empty or whitespace-only domain ends the creator with a
\* failure exit, nothing created under did-document, .well-known or a
\* path directory.
C5_MissingDomainFails ==
    (/\ mode = "docker" \/ (mode = "interactive" /\ domain # Undefined)
     /\ Blank(domain)) =>
        /\ Failed
        /\ PublishedFiles = {}
        /\ PublishedDirs = {}

C5_Witness ==
    /\ mode = "interactive"
    /\ domain = <<" ">>
    /\ Failed

\* C6: a creator that finds keys/public-key.json missing exits with a
\* failure at that point, builds no document, takes no default key and
\* writes nothing.
C6_MissingKeyFails ==
    /\ [][(/\ pc = "checkKey"
           /\ pc' # pc
           /\ ~Exists(File(KeysDir, "public-key.json"))) =>
              (/\ pc' = "done"
               /\ exitCode' = 1
               /\ publicKeyJWK' = NoValue
               /\ didDocument' = NoValue
               /\ files' = files
               /\ dirs' = dirs)]_vars
    /\ []((pc = "done" /\ publicKeyJWK = NoValue) =>
              (exitCode = 1 /\ PublishedFiles = {} /\ PublishedDirs = {}))

C6_Witness ==
    /\ mode = "docker"
    /\ ~Blank(domain)
    /\ Failed
    /\ publicKeyJWK = NoValue

\* C7: a creator run that ends in failure has written no did.json into
\* the publication directory.
C7_FailedRunPublishesNothing ==
    Failed => HostedDirs = {}

\* C8: with the server running, a did.json that can be fetched from a
\* directory always has its certificate chain beside it.
C8_CertBeforeDocument ==
    srv = "up" =>
        \A d \in dirs :
            Serve(File(d, DidJson)).status = 200 =>
                Exists(File(d, CertChainPem))

\* C9: every written document has id equal to the computed DID and exactly
\* one verification method: id <did>#JWK2020-RSA, type JsonWebKey2020,
\* controller the DID, publicKeyJwk the stored public key plus x5u.
C9_VerificationMethod ==
    \A doc \in WrittenDocuments :
        /\ doc.id = didId
        /\ Len(doc.verificationMethod) = 1
        /\ LET vm == doc.verificationMethod[1]
           IN /\ vm.id = didId \o <<"#", "JWK2020-RSA">>
              /\ vm.type = "JsonWebKey2020"
              /\ vm.controller = didId
              /\ \E key \in StoredKeys :
                    vm.publicKeyJwk = [x5u |-> x5uURL] @@ key

C9_Witness ==
    /\ mode = "docker"
    /\ Exists(File(WellKnownDir, DidJson))
    /\ Exists(File(OutputDir, DidJson))

\* C10: in every written document assertionMethod is the single reference
\* <did>#JWK2020-RSA, whatever was answered to the path, authentication
\* and service prompts.
C10_AssertionMethod ==
    \A doc \in WrittenDocuments :
        doc.assertionMethod = <<didId \o <<"#", "JWK2020-RSA">>>>

C10_Witness ==
    \E doc \in WrittenDocuments :
        /\ "authentication" \in DOMAIN doc
        /\ "service" \in DOMAIN doc
        /\ Len(doc.service) = 2
        /\ Yes(hasPath)

\* C11: a written document has no authentication field when authentication
\* was not requested; when it was requested, authentication equals
\* assertionMethod, the single reference <did>#JWK2020-RSA.
C11_Authentication ==
    \A doc \in WrittenDocuments :
        IF Yes(addAuth)
        THEN /\ "authentication" \in DOMAIN doc
             /\ doc.authentication = doc.assertionMethod
             /\ doc.authentication = <<didId \o <<"#", "JWK2020-RSA">>>>
        ELSE "authentication" \notin DOMAIN doc

C11_Witness ==
    /\ Succeeded
    /\ Yes(addAuth)
    /\ Yes(hasPath)
    /\ \E doc \in WrittenDocuments : "authentication" \in DOMAIN doc

\* C12: a written document has no service field when no service was
\* requested; otherwise service is non-empty and holds, in the order typed,
\* one entry {id: <did>#<lower-cased type>, type, serviceEndpoint} per
\* entered (type, endpoint) pair.
C12_Services ==
    \A doc \in WrittenDocuments :
        IF Yes(addService)
        THEN /\ "service" \in DOMAIN doc
             /\ Len(doc.service) >= 1
             /\ Len(doc.service) = Len(entered)
             /\ \A i \in DOMAIN entered :
                    doc.service[i] =
                        [id |-> didId \o <<"#">>
                                  \o [k \in DOMAIN entered[i].type |->
                                         IF entered[i].type[k] = "F" THEN "f"
                                         ELSE entered[i].type[k]],
                         type |-> entered[i].type,
                         serviceEndpoint |-> entered[i].endpoint]
        ELSE "service" \notin DOMAIN doc

C12_Witness ==
    /\ Succeeded
    /\ Yes(addService)
    /\ entered = <<[type |-> <<"F", "o", "o">>, endpoint |-> <<"u">>],
                   [type |-> <<"f", "o", "o">>, endpoint |-> <<"u">>]>>
    /\ \E doc \in WrittenDocuments : Len(doc.service) = 2

\* C13: a run in which two entered service types lower-case to the same
\* fragment id does not succeed, and no written document holds two service
\* entries with the same id.
C13_NoDuplicateServiceIds ==
    /\ Succeeded =>
          \A i, j \in DOMAIN entered :
              ToLowerCase(entered[i].type) = ToLowerCase(entered[j].type)
                  => i = j
    /\ \A doc \in WrittenDocuments :
          "service" \in DOMAIN doc =>
              \A i, j \in DOMAIN doc.service :
                  doc.service[i].id = doc.service[j].id => i = j

\* C14: building a document leaves the public key object it was given as it
\* was parsed from keys/public-key.json: the object never acquires an x5u.
C14_KeyObjectUnchanged ==
    publicKeyJWK # NoValue =>
        /\ publicKeyJWK \in StoredKeys
        /\ "x5u" \notin DOMAIN publicKeyJWK

\* C15: the content of every written did.json is a function of the domain,
\* the path answers, the stored public key and the authentication and
\* service answers, and of nothing else: two runs with the same inputs
\* write the same document.
C15_Deterministic ==
    LET key == [f \in DOMAIN publicKeyJWK \ {"x5u"} |-> publicKeyJWK[f]]
        host == Trim(domain)
        did == IF mode = "interactive" /\ hasPath = <<"y">>
               THEN <<"did:web:">> \o host \o <<":">>
                      \o Join(Split(pathComponent, "/"), ":")
               ELSE <<"did:web:">> \o host
        url == IF pathComponent # <<>>
               THEN <<"https://">> \o host \o <<"/">> \o pathComponent
                      \o <<"/", "x509CertificateChain.pem">>
               ELSE <<"https://">> \o host
                      \o <<"/", ".well-known", "/",
                            "x509CertificateChain.pem">>
        ref == did \o <<"#", "JWK2020-RSA">>
        lower(t) == [k \in DOMAIN t |-> IF t[k] = "F" THEN "f" ELSE t[k]]
        base == [context |-> <<"https://www.w3.org/ns/did/v1">>,
                 id |-> did,
                 verificationMethod |->
                    <<[context |->
                          "https://w3c-ccg.github.io/lds-jws2020/contexts/v1/",
                       id |-> ref,
                       type |-> "JsonWebKey2020",
                       controller |-> did,
                       publicKeyJwk |-> [x5u |-> url] @@ key]>>,
                 assertionMethod |-> <<ref>>]
        auth == IF addAuth = <<"y">>
                THEN [authentication |-> <<ref>>] ELSE <<>>
        service == IF addService = <<"y">>
                   THEN [service |->
                           [i \in DOMAIN entered |->
                              [id |-> did \o <<"#">> \o lower(entered[i].type),
                               type |-> entered[i].type,
                               serviceEndpoint |-> entered[i].endpoint]]]
                   ELSE <<>>
    IN \A f \in DOMAIN files :
           f.name = DidJson => files[f] = [json |-> auth @@ service @@ base]

C15_Witness ==
    /\ Succeeded
    /\ mode = "interactive"
    /\ domain = <<"d", " ">>
    /\ pathComponent = <<"a">>
    /\ addAuth = <<"y">>
    /\ Len(entered) = 1
    /\ files[File(OutputDir, DidJson)] = files[File(<<<<"a">>>>, DidJson)]

\* C16: when keys/public-key.json lacks a required key field (kty, n, e),
\* the creator does not succeed and no did.json is written.
C16_MalformedKeyFails ==
    LET stored == File(KeysDir, "public-key.json")
        required == {"kty", "n", "e"}
    IN (Exists(stored) /\ ~(required \subseteq DOMAIN JSONParse(files[stored])))
          => /\ ~Succeeded
             /\ WrittenDocuments = {}

\* C17: after the interactive creator has published under a custom path
\* s1/.../sn of non-empty segments, a server whose mounts are those a
\* startup computes from the directory as it now is answers
\* GET /s1/.../sn/did.json with the document and
\* GET /s1/.../sn/x509CertificateChain.pem with the certificate chain.
C17_CustomPathServed ==
    (/\ srv = "up"
     /\ mounts = CustomMounts
     /\ Succeeded
     /\ mode = "interactive"
     /\ Yes(hasPath)
     /\ PathDir # <<>>
     /\ pathComponent = Join(PathDir, "/")) =>
        /\ Serve(File(PathDir, DidJson)).status = 200
        /\ Serve(File(PathDir, DidJson)).body = JSONStringify(didDocument)
        /\ Serve(File(PathDir, CertChainPem)).status = 200
        /\ Serve(File(PathDir, CertChainPem)).body
              = files[File(KeysDir, CertChainPem)]

\* C18: the Docker-mode creator produces the path-less identifier
\* did:web:<trimmed domain> and an x5u under /.well-known/, its document has
\* neither authentication nor service, and the files it writes are exactly
\* did-document/did.json, .well-known/did.json and
\* .well-known/x509CertificateChain.pem.
C18_DockerMode ==
    LET written == {File(OutputDir, DidJson), File(WellKnownDir, DidJson),
                    File(WellKnownDir, CertChainPem)}
    IN mode = "docker" =>
          /\ PublishedFiles \subseteq written
          /\ didDocument # NoValue =>
                /\ didId = <<"did:web:">> \o Trim(domain)
                /\ x5uURL = <<"https://">> \o Trim(domain)
                              \o <<"/", ".well-known", "/",
                                    "x509CertificateChain.pem">>
                /\ didDocument.id = didId
                /\ didDocument.verificationMethod[1].publicKeyJwk.x5u = x5uURL
                /\ "authentication" \notin DOMAIN didDocument
                /\ "service" \notin DOMAIN didDocument
          /\ Succeeded =>
                /\ PublishedFiles = written
                /\ files[File(OutputDir, DidJson)] = JSONStringify(didDocument)
                /\ files[File(WellKnownDir, DidJson)]
                      = JSONStringify(didDocument)

C18_Witness ==
    /\ mode = "docker"
    /\ Succeeded
    /\ domain = <<" ", "d">>
    /\ Exists(File(WellKnownDir, CertChainPem))

\* C19: whenever the openssl command is installed and working, the
\* certificate step of generate-keys yields an OpenSSL-generated
\* certificate, not the placeholder; this includes the first run in a
\* fresh checkout, where the keys directory does not exist yet.
C19_PlaceholderOnlyWithoutOpenssl ==
    [][GenerateSelfSignedCertificate(TRUE) => gcert'.cert = "openssl"]_vars

\* C20: when generateKeys rejects, the generate-keys process ends with a
\* failure exit status.
C20_KeygenFailureSurfaced ==
    gerror => gexit = 1

\* a generate-keys run has ended without an error
KeysGenerated == gexit = 0 /\ ~gerror

\* C21: after a successful generate-keys run keys/ holds private-key.json,
\* public-key.json, private-key.pem, public-key.pem and
\* x509CertificateChain.pem, public-key.json carries alg PS256 and use sig,
\* and a creator's key check then passes.
C21_KeysComplete ==
    /\ [](KeysGenerated =>
             /\ \A name \in {"private-key.json", "public-key.json",
                              "private-key.pem", "public-key.pem",
                              "x509CertificateChain.pem"} :
                    Exists(File(KeysDir, name))
             /\ JSONParse(files[File(KeysDir, "public-key.json")]).alg
                   = "PS256"
             /\ JSONParse(files[File(KeysDir, "public-key.json")]).use = "sig")
    /\ [][(KeysGenerated /\ pc = "checkKey" /\ pc' # pc) =>
              (pc' = "readKey" /\ exitCode' = -1)]_vars

C21_Witness ==
    /\ KeysGenerated
    /\ mode = "interactive"
    /\ pc = "readKey"
    /\ Cardinality({f \in DOMAIN files : f.dir = KeysDir}) = 5

\* C22: the Docker build validates DOMAIN, then generates keys, then
\* creates the DID document.  With DOMAIN not given or empty it fails at
\* validation and neither key generation nor the creator runs; otherwise
\* the creator starts only after key generation has ended, and a document
\* is written only when the keys exist.
C22_BuildOrder ==
    LET keyFiles == {"private-key.json", "public-key.json", "private-key.pem",
                     "public-key.pem", "x509CertificateChain.pem"}
        empty == buildArg = Undefined \/ buildArg = <<>>
    IN /\ (build \notin {"none", "validate"} /\ empty) =>
             /\ build = "failed"
             /\ genRuns = 0
             /\ mode = "none"
             /\ files = <<>>
       /\ genRuns > 0 => ~empty
       /\ mode # "none" =>
             /\ build \in {"did", "built", "failed"}
             /\ genRuns = 1 /\ gpc = "idle" /\ gexit = 0
       /\ WrittenDocuments # {} =>
             /\ Exists(File(KeysDir, "public-key.json"))
             /\ ~gerror => \A name \in keyFiles : Exists(File(KeysDir, name))
       /\ build = "built" => (Succeeded /\ WrittenDocuments # {})

C22_Witness ==
    /\ build = "built"
    /\ buildArg = <<" ", "d">>
    /\ didId = <<"did:web:", "d">>
    /\ Exists(File(WellKnownDir, DidJson))

\* C23: GET /api/did-info answers 404 'DID document not found' exactly
\* when .well-known/did.json does not exist at the time of the request;
\* otherwise 'did' is the id of the document on disk and 'document' is that
\* document.
C23_DidInfo ==
    [][(resp' # resp /\ resp'.req = ApiDidInfo) =>
          LET onDisk == File(WellKnownDir, DidJson)
          IN /\ resp'.status = 404 <=> onDisk \notin DOMAIN files
             /\ resp'.status = 404 =>
                   resp'.body.error = "DID document not found"
             /\ resp'.status # 404 =>
                   /\ resp'.body.did = files[onDisk].json.id
                   /\ resp'.body.document = files[onDisk].json]_vars

C23_Witness ==
    /\ resp # NoValue
    /\ resp.req = ApiDidInfo
    /\ resp.status = 200
    /\ resp.body.did = <<"did:web:", "d">>
    /\ pc = "copyCert"

\* C24: a server that has received SIGTERM has closed its listening socket
\* and run the close callback; the handler raises no error.
C24_GracefulShutdown ==
    srv \notin {"down", "up"} => srv = "closed"

\* C25: once a generate-keys run has ended, a stored certificate that
\* OpenSSL produced is signed with the key whose public half is in
\* keys/public-key.json.
C25_CertificateMatchesKey ==
    LET stored == File(KeysDir, CertChainPem)
    IN (gpc = "idle" /\ Exists(stored) /\ files[stored].cert = "openssl") =>
          files[stored].key
              = JSONParse(files[File(KeysDir, "public-key.json")]).n

\* C26: after a successful creator run the archive copy
\* did-document/did.json and the hosted did.json of that run (in
\* .well-known or in the path directory) have the same content,
\* authentication and service sections included.
C26_ArchiveEqualsHosted ==
    Succeeded =>
        /\ HostedDirs # {}
        /\ Exists(File(OutputDir, DidJson))
        /\ \A d \in HostedDirs :
              files[File(d, DidJson)] = files[File(OutputDir, DidJson)]

C26_Witness ==
    /\ Succeeded
    /\ mode = "interactive"
    /\ Yes(addAuth)
    /\ Len(entered) = 2
    /\ pathComponent = <<"a">>
    /\ "service" \in DOMAIN JSONParse(files[File(<<<<"a">>>>, DidJson)])
    /\ "service" \in DOMAIN JSONParse(files[File(OutputDir, DidJson)])

\* C27: whatever path the creator was given, the server answers no request
\* from a file below keys/, and no response carries the content of
\* private-key.json or private-key.pem.
C27_KeysNotServed ==
    LET private == {files[f] : f \in {g \in DOMAIN files :
                                         /\ g.dir = KeysDir
                                         /\ g.name \in {"private-key.json",
                                                         "private-key.pem"}}}
        safe(r) == r.status = 200 =>
                      /\ r.req.dir[1] # <<"keys">>
                      /\ r.body \notin private
    IN /\ resp # NoValue => safe(resp)
       /\ srv = "up" => \A req \in DOMAIN files : safe(Serve(req))

C27_Witness ==
    /\ srv = "up"
    /\ pathComponent = <<"keys">>
    /\ Exists(File(KeysDir, DidJson))
    /\ resp # NoValue
    /\ resp.req = File(KeysDir, "private-key.pem")
    /\ resp.status = 404

\* C28: the custom-path directories a server serves are fixed when it
\* starts: exactly the top-level directories that then hold did.json and
\* are not excluded.  A document written into a directory that is not among
\* them cannot be fetched from the running server, while .well-known/did.json
\* can be fetched as soon as it is written.
C28_MountsFixedAtStartup ==
    /\ [][(srv' = "up" /\ srv # "up") =>
              mounts' = {d[1] : d \in {e \in dirs :
                            /\ Len(e) = 1
                            /\ File(e, DidJson) \in DOMAIN files
                            /\ e[1] \notin {<<"node_modules">>, <<"keys">>,
                                             <<"did-document">>,
                                             <<".well-known">>, <<".git">>}}}]_vars
    /\ [][(srv = "up" /\ srv' = "up") => mounts' = mounts]_vars
    /\ [](srv = "up" =>
             /\ \A d \in dirs :
                   (Len(d) = 1 /\ d # WellKnownDir /\ d[1] \notin mounts) =>
                       /\ Serve(File(d, DidJson)).status = 404
                       /\ Serve(File(d, CertChainPem)).status = 404
             /\ File(WellKnownDir, DidJson) \in DOMAIN files =>
                   /\ Serve(File(WellKnownDir, DidJson)).status = 200
                   /\ Serve(File(WellKnownDir, DidJson)).body
                         = files[File(WellKnownDir, DidJson)])

C28_Witness ==
    /\ srv = "up"
    /\ mounts = {}
    /\ Succeeded
    /\ pathComponent = <<"a">>
    /\ Exists(File(<<<<"a">>>>, DidJson))
    /\ CustomMounts = {<<"a">>}

\* C29: the interactive creator accepts a path with empty segments
\* (leading, trailing or doubled slash): with the keys in place the run ends
\* without error, and the id is did:web:<trimmed domain>: followed by the
\* path with every '/' turned into ':', so it has one piece per piece of the
\* input, empty pieces included.
C29_EmptySegmentsKept ==
    (/\ mode = "interactive"
     /\ hasPath = <<"y">>
     /\ pc \notin {"idle", "checkKey", "readKey", "askDomain", "askHasPath",
                   "askPath"}) =>
        /\ didId = <<"did:web:">> \o Trim(domain) \o <<":">>
                     \o [i \in DOMAIN pathComponent |->
                            IF pathComponent[i] = "/" THEN ":"
                            ELSE pathComponent[i]]
        /\ pc = "done" => exitCode = 0

C29_Witness ==
    /\ Succeeded
    /\ mode = "interactive"
    /\ pathComponent = <<"a", "/">>
    /\ didId = <<"did:web:", "d", ":", "a", ":">>
    /\ Exists(File(<<<<"a">>>>, DidJson))

\* C30: the Docker creator run a second time with the same domain and
\* unchanged keys succeeds again and leaves did-document/did.json,
\* .well-known/did.json and .well-known/x509CertificateChain.pem as the
\* first run left them; the existing directories are reused.
C30_RerunSameOutput ==
    (previous # NoValue /\ pc = "done") =>
        /\ exitCode = 0
        /\ dirs = previous.dirs
        /\ DOMAIN files = DOMAIN previous.files
        /\ \A f \in {File(OutputDir, DidJson), File(WellKnownDir, DidJson),
                      File(WellKnownDir, CertChainPem)} :
              /\ f \in DOMAIN files
              /\ files[f] = previous.files[f]

C30_Witness ==
    /\ previous # NoValue
    /\ Succeeded
    /\ domain = <<"d", " ">>
    /\ files[File(WellKnownDir, DidJson)].json.id = <<"did:web:", "d">>

====
